---- MODULE Spec2Model ----
(***************************************************************************)
(* A model of the chat gateway of src/main.py: the session-backed remote   *)
(* code execution tool execute_in_dynamic_session, the process-wide        *)
(* Session Store active_sessions, the per-request tool tracker             *)
(* (current_tools_used, current_request_sessions) and the HTTP handlers    *)
(* that drive them (POST /chat, DELETE /chat/sessions/<id>, GET /health).  *)
(***************************************************************************)
EXTENDS Integers, Sequences, FiniteSets, TLC

(***************************************************************************)
(* Python values.  Every value is a record of one shape, so that values of *)
(* different Python types can be stored in the same dict and compared.     *)
(* Text is a sequence of chunks; a substring test is a test for a          *)
(* contiguous run of chunks.                                               *)
(***************************************************************************)
Missing == [kind |-> "missing", s |-> <<>>, n |-> 0]

None == [kind |-> "None", s |-> <<>>, n |-> 0]

PyStr(s) == [kind |-> "str", s |-> s, n |-> 0]

PyInt(n) == [kind |-> "int", s |-> <<>>, n |-> n]

PyBool(b) == [kind |-> "bool", s |-> <<>>, n |-> IF b THEN 1 ELSE 0]

EmptyStr == PyStr(<<>>)

\* Python truthiness: None, "", 0 and False are falsy.
Truthy(v) ==
  CASE v.kind = "str" -> v.s # <<>>
    [] v.kind = "int" -> v.n # 0
    [] v.kind = "bool" -> v.n = 1
    [] OTHER -> FALSE

\* Python ==/!= between the values the handler compares (None equals only None).
PyEq(a, b) ==
  IF a.kind \in {"int", "bool"} /\ b.kind \in {"int", "bool"}
  THEN a.n = b.n
  ELSE a = b

PyNe(a, b) == ~PyEq(a, b)

\* dict.get(key, default) on a field that may be missing.
DictGet(v, default) == IF v = Missing THEN default ELSE v

\* k in s, for two texts: k occurs in s as a contiguous run.
Contains(s, k) ==
  \E i \in 0..(Len(s) - Len(k)) : SubSeq(s, i + 1, i + Len(k)) = k

(***************************************************************************)
(* Exceptions: the classes the handler's except clauses name, and the      *)
(* classes of the exceptions the modelled steps raise.                     *)
(***************************************************************************)
ExcBases ==
  [ Timeout |-> {"Timeout", "RequestException", "Exception"},
    ConnectionError |-> {"ConnectionError", "RequestException", "Exception"},
    JSONDecodeError |-> {"JSONDecodeError", "RequestException", "Exception"},
    TypeError |-> {"TypeError", "Exception"},
    AttributeError |-> {"AttributeError", "Exception"},
    CredentialUnavailableError |-> {"CredentialUnavailableError", "Exception"} ]

IsInstance(exc, cls) == cls \in ExcBases[exc]

(***************************************************************************)
(* The failure classifier's keyword list (the same list in both branches). *)
(***************************************************************************)
ErrorKeywords ==
  << <<"Error:">>, <<"Traceback">>, <<"Exception:">>, <<"Import", "Error:">>,
     <<"ModuleNotFound", "Error:">>, <<"Syntax", "Error:">>, <<"Name", "Error:">>,
     <<"Type", "Error:">>, <<"Value", "Error:">>, <<"Attribute", "Error:">> >>

\* any(error_keyword in stdout for error_keyword in [...]); stdout is a str.
HasErrorInStdout(stdout) ==
  \E j \in 1..Len(ErrorKeywords) : Contains(stdout.s, ErrorKeywords[j])

(***************************************************************************)
(* The Session Store: an insertion-ordered dict, id -> session record, as  *)
(* a sequence of entries in insertion order.                               *)
(***************************************************************************)
Keys(store) == {store[i].id : i \in 1..Len(store)}

IndexOf(store, sid) == CHOOSE i \in 1..Len(store) : store[i].id = sid

Get(store, sid) == store[IndexOf(store, sid)].rec

Put(store, sid, rec) ==
  IF sid \in Keys(store)
  THEN [store EXCEPT ![IndexOf(store, sid)] = [id |-> sid, rec |-> rec]]
  ELSE Append(store, [id |-> sid, rec |-> rec])

\* The record a first execution creates: no last_used, last_status, last_returnCode yet.
NewSession(now) ==
  [ created_at |-> now, execution_count |-> 0,
    last_stdout |-> EmptyStr, last_stderr |-> EmptyStr,
    last_used |-> 0, last_status |-> Missing, last_returnCode |-> Missing ]

MutTrackSession(store, sid, now) ==
  Put(store, sid,
      [NewSession(now) EXCEPT !.execution_count = 1, !.last_used = now])

\* Track auto-allocated session, update session statistics.
TrackSession(store, sid, now) ==
  LET s0 == IF sid \notin Keys(store) THEN Put(store, sid, NewSession(now)) ELSE store
      r0 == Get(s0, sid)
  IN Put(s0, sid, [r0 EXCEPT !.execution_count = r0.execution_count + 1,
                             !.last_used = now])

(***************************************************************************)
(* A sandbox response body.  json says what response.json() yields:        *)
(* "invalid" (it raises), "scalar" (a number or null), "array", or         *)
(* "object"; properties says whether the object has a "properties" key and *)
(* whether its value is an object; the other fields are the keys read.     *)
(***************************************************************************)
Body(json, properties, stdout, stderr, status, returnCode, output, error, return_code, success) ==
  [ json |-> json, properties |-> properties, stdout |-> stdout,
    stderr |-> stderr, status |-> status, returnCode |-> returnCode,
    output |-> output, error |-> error, return_code |-> return_code,
    success |-> success ]

Wrapped(stdout, stderr, status, returnCode) ==
  Body("object", "object", stdout, stderr, status, returnCode,
       Missing, Missing, Missing, Missing)

Direct(output, error, return_code, success) ==
  Body("object", "missing", Missing, Missing, Missing, Missing,
       output, error, return_code, success)

Unreadable(json, properties) ==
  Body(json, properties, Missing, Missing, Missing, Missing,
       Missing, Missing, Missing, Missing)

Failed == PyStr(<<"Failed">>)

Success == PyStr(<<"Success">>)

MutWrappedFailed(stdout, stderr, status, return_code) ==
  \/ HasErrorInStdout(stdout)
  \/ PyEq(status, Failed)
  \/ (Truthy(return_code) /\ PyNe(return_code, PyInt(0)))

\* if stderr or has_error_in_stdout or status == "Failed"
\*    or (return_code and return_code != 0)
WrappedFailed(stdout, stderr, status, return_code) ==
  \/ Truthy(stderr)
  \/ HasErrorInStdout(stdout)
  \/ PyEq(status, Failed)
  \/ (Truthy(return_code) /\ PyNe(return_code, PyInt(0)))

\* if stderr or has_error_in_stdout or not success or return_code != 0
DirectFailed(stdout, stderr, success, return_code) ==
  \/ Truthy(stderr)
  \/ HasErrorInStdout(stdout)
  \/ ~Truthy(success)
  \/ PyNe(return_code, PyInt(0))

MutMoveAlways(stdout, stderr) == HasErrorInStdout(stdout)

MutMoveToStderr(stdout, stderr) == FALSE

\* if has_error_in_stdout and not stderr: move the error from stdout to stderr.
MoveToStderr(stdout, stderr) == HasErrorInStdout(stdout) /\ ~Truthy(stderr)

MutDirectSuccess(result) == DictGet(result.success, PyBool(FALSE))

\* success = result.get("success", True)
DirectSuccess(result) == DictGet(result.success, PyBool(TRUE))

\* The "properties" in result branch: the Azure Container Apps format.
\* exc is the exception the branch raises ("none": it runs to its end).
ClassifyWrapped(store, sid, body) ==
  LET props == body
      stdout == DictGet(props.stdout, EmptyStr)
      stderr == DictGet(props.stderr, EmptyStr)
      status == DictGet(props.status, EmptyStr)
      return_code == DictGet(props.returnCode, None)
      r1 == [Get(store, sid) EXCEPT !.last_stdout = stdout, !.last_stderr = stderr,
                                    !.last_returnCode = return_code]
      s1 == Put(store, sid, r1)
  IN IF body.properties # "object"
     THEN \* props.get on a value that is no dict
          [store |-> store, exc |-> "AttributeError"]
     ELSE IF stdout.kind # "str"
     THEN \* error_keyword in stdout, after the three last_* assignments
          [store |-> s1, exc |-> "TypeError"]
     ELSE IF WrappedFailed(stdout, stderr, status, return_code)
          THEN [store |-> Put(s1, sid,
                   IF MoveToStderr(stdout, stderr)
                   THEN [r1 EXCEPT !.last_status = Failed, !.last_stderr = stdout,
                                   !.last_stdout = EmptyStr]
                   ELSE [r1 EXCEPT !.last_status = Failed]),
                exc |-> "none"]
          ELSE [store |-> Put(s1, sid, [r1 EXCEPT !.last_status = Success]),
                exc |-> "none"]

\* The else branch: the direct format of the session container.
ClassifyDirect(store, sid, body) ==
  LET result == body
      stdout == DictGet(result.output, EmptyStr)
      stderr == DictGet(result.error, EmptyStr)
      return_code == DictGet(result.return_code, PyInt(0))
      success == DirectSuccess(result)
      r0 == Get(store, sid)
  IN IF body.json # "object"
     THEN \* result.get on a list
          [store |-> store, exc |-> "AttributeError"]
     ELSE IF stdout.kind # "str"
     THEN \* error_keyword in stdout, before any last_* assignment
          [store |-> store, exc |-> "TypeError"]
     ELSE IF DirectFailed(stdout, stderr, success, return_code)
          THEN [store |-> Put(store, sid,
                   [(IF MoveToStderr(stdout, stderr)
                     THEN [r0 EXCEPT !.last_stderr = stdout, !.last_stdout = EmptyStr]
                     ELSE [r0 EXCEPT !.last_stdout = stdout, !.last_stderr = stderr])
                    EXCEPT !.last_status = Failed,
                           !.last_returnCode =
                              IF PyNe(return_code, PyInt(0)) THEN return_code ELSE PyInt(1)]),
                exc |-> "none"]
          ELSE [store |-> Put(store, sid,
                   [r0 EXCEPT !.last_stdout = stdout, !.last_stderr = stderr,
                              !.last_status = Success, !.last_returnCode = return_code]),
                exc |-> "none"]

(***************************************************************************)
(* The reports the tool returns.  title is the literal text that tells the *)
(* reports apart; the other fields are what the f-string interpolates.     *)
(***************************************************************************)
Report(title, session_id, return_code, code, text, status_code) ==
  [ title |-> title, session_id |-> session_id, return_code |-> return_code,
    code |-> code, text |-> text, status_code |-> status_code ]

Plain(title) == Report(title, 0, Missing, "", Missing, 0)

NoReport == Plain("")

\* Format output from the updated values in active_sessions.
FormatReport(rec, sid, code) ==
  LET return_code == DictGet(rec.last_returnCode, PyInt(0))
      status == DictGet(rec.last_status, Success)
      stderr == DictGet(rec.last_stderr, EmptyStr)
      stdout == DictGet(rec.last_stdout, EmptyStr)
  IN IF PyEq(status, Failed) \/ PyNe(return_code, PyInt(0)) \/ Truthy(stderr)
     THEN Report("Code Execution Failed", sid, return_code, code,
                 IF Truthy(stderr) THEN stderr ELSE stdout, 200)
     ELSE Report("Code Execution Successful", sid, Missing, code,
                 IF Truthy(stdout) THEN stdout ELSE PyStr(<<"(no output)">>), 200)

\* The response.status_code == 200 branch: result = response.json(), the store
\* update, the classification of either shape and the formatted report.
\* exc is the exception the branch raises ("none": it returns report).
On200(store, sid, body, code, now) ==
  IF body.json = "invalid"
  THEN [store |-> store, exc |-> "JSONDecodeError", report |-> NoReport]
  ELSE LET s1 == TrackSession(store, sid, now)
       IN IF body.json = "scalar"
          THEN \* "properties" in result, on a number or null
               [store |-> s1, exc |-> "TypeError", report |-> NoReport]
          ELSE LET c == IF body.json = "object" /\ body.properties # "missing"
                        THEN ClassifyWrapped(s1, sid, body)
                        ELSE ClassifyDirect(s1, sid, body)
               IN [ store |-> c.store, exc |-> c.exc,
                    report |-> IF c.exc = "none"
                               THEN FormatReport(Get(c.store, sid), sid, code)
                               ELSE NoReport ]

\* for _ in range(10)
POLL_ATTEMPTS == 10

\* What poll attempt i meets: the first env.pending attempts get an answer that
\* is not a completed result, the next one gets env.final.
PollOutcome(env, i) == IF i <= env.pending THEN env.pending_kind ELSE env.final

RECURSIVE MutPollLoop(_, _)
MutPollLoop(i, env) ==
  IF i > POLL_ATTEMPTS
  THEN [exc |-> "none", report |-> Plain("timed out waiting for result"),
        polls |-> i - 1, trace |-> <<>>]
  ELSE LET o == PollOutcome(env, i)
           rest == MutPollLoop(i + 1, env)
       IN CASE o \in {"non200", "running", "Completed"} ->
                 [rest EXCEPT !.trace = <<"sleep", "get">> \o @]
            [] OTHER -> [exc |-> o, report |-> NoReport, polls |-> i,
                         trace |-> <<"sleep", "get">>]

\* The polling loop from attempt i on: time.sleep(1), requests.get(poll_url),
\* and the return on the first status == "Completed".  trace is what the loop
\* does, in order.
RECURSIVE PollLoop(_, _)
PollLoop(i, env) ==
  IF i > POLL_ATTEMPTS
  THEN [exc |-> "none", report |-> Plain("timed out waiting for result"),
        polls |-> i - 1, trace |-> <<>>]
  ELSE LET o == PollOutcome(env, i)
           rest == PollLoop(i + 1, env)
       IN CASE o \in {"non200", "running"} ->
                 [rest EXCEPT !.trace = <<"sleep", "get">> \o @]
            [] o = "Completed" ->
                 [exc |-> "none",
                  report |-> Report("Code executed successfully", 0, Missing, "",
                                    PyStr(<<"result">>), 200),
                  polls |-> i, trace |-> <<"sleep", "get">>]
            [] OTHER -> [exc |-> o, report |-> NoReport, polls |-> i,
                         trace |-> <<"sleep", "get">>]

\* The elif response.status_code == 202 branch.
On202(env) ==
  IF env.location
  THEN PollLoop(1, env)
  ELSE [exc |-> "none", report |-> Plain("no polling URL provided"), polls |-> 0,
        trace |-> <<>>]

(***************************************************************************)
(* execute_in_dynamic_session.  An invocation's result: the globals it     *)
(* leaves, the string it returns (or the exception that escapes it), and   *)
(* what it did on the way (the id it resolved, the requests it made).      *)
(***************************************************************************)
Outcome(store, tools, seen, sid, minted, tokens, posts, polls, report, escaped) ==
  [ store |-> store, tools |-> tools, seen |-> seen, sid |-> sid,
    minted |-> minted, tokens |-> tokens, posts |-> posts, polls |-> polls,
    trace |-> <<>>, report |-> report, escaped |-> escaped ]

\* uuid.uuid4().hex[:12]: a fresh id; the n-th invocation of the process draws id n.
uuid4(n) == n

MutResolveSession(store, n) == [sid |-> uuid4(n), minted |-> TRUE]

\* Reuse existing session if available, otherwise create new one.
ResolveSession(store, n) ==
  IF Len(store) > 0
  THEN [sid |-> store[Len(store)].id, minted |-> FALSE]
  ELSE [sid |-> uuid4(n), minted |-> TRUE]

ExecRecord(sid) == [name |-> "execute_in_dynamic_session", session_id |-> sid]

MutTrackInvocation(tools, seen, sid) ==
  [tools |-> Append(tools, ExecRecord(sid)), seen |-> seen \cup {sid}]

\* Only track if this session hasn't been used in current request.
TrackInvocation(tools, seen, sid) ==
  IF sid \notin seen
  THEN [tools |-> Append(tools, ExecRecord(sid)), seen |-> seen \cup {sid}]
  ELSE [tools |-> tools, seen |-> seen]

MutConfigured(endpoint) == TRUE

\* if not SESSION_POOL_ENDPOINT: return the configuration error.
Configured(endpoint) == endpoint

MutOuterExcept(exc) ==
  IF IsInstance(exc, "Timeout")
  THEN [report |-> Plain("Timeout Error"), escaped |-> "none"]
  ELSE [report |-> NoReport, escaped |-> exc]

\* The except clauses of the second try block.
OuterExcept(exc) ==
  IF IsInstance(exc, "Timeout")
  THEN [report |-> Plain("Timeout Error"), escaped |-> "none"]
  ELSE IF IsInstance(exc, "Exception")
  THEN [report |-> Plain("System Error"), escaped |-> "none"]
  ELSE [report |-> NoReport, escaped |-> exc]

MutAfterPostRetry(o, env, now) ==
  LET r == On200(o.store, o.sid, env.body, env.code, now)
      p == On202(env)
      x == OuterExcept(IF env.status = 200 THEN r.exc ELSE p.exc)
  IN IF env.status = 200
     THEN [o EXCEPT !.store = r.store,
                    !.report = IF r.exc = "none" THEN r.report ELSE x.report,
                    !.escaped = IF r.exc = "none" THEN "none" ELSE x.escaped]
     ELSE IF env.status = 202
     THEN [o EXCEPT !.polls = p.polls, !.trace = p.trace,
                    !.report = IF p.exc = "none" THEN p.report ELSE x.report,
                    !.escaped = IF p.exc = "none" THEN "none" ELSE x.escaped]
     ELSE [o EXCEPT !.posts = o.posts \o <<o.sid>>,
                    !.report = Report("Execution Error", 0, Missing, "",
                                      PyStr(<<"body">>), env.status)]

MutAfterPost(o, env, now) ==
  LET r == On200(o.store, o.sid, env.body, env.code, now)
      p == On202(env)
      x == OuterExcept(IF env.status = 200 THEN r.exc ELSE p.exc)
  IN IF env.status = 200
     THEN [o EXCEPT !.store = r.store,
                    !.report = IF r.exc = "none" THEN r.report ELSE x.report,
                    !.escaped = IF r.exc = "none" THEN "none" ELSE x.escaped]
     ELSE IF env.status = 202
     THEN [o EXCEPT !.store = r.store, !.polls = p.polls, !.trace = p.trace,
                    !.report = IF p.exc = "none" THEN p.report ELSE x.report,
                    !.escaped = IF p.exc = "none" THEN "none" ELSE x.escaped]
     ELSE [o EXCEPT !.report = Report("Execution Error", 0, Missing, "",
                                      PyStr(<<"body">>), env.status)]

\* The dispatch on response.status_code, inside the second try block.
AfterPost(o, env, now) ==
  LET r == On200(o.store, o.sid, env.body, env.code, now)
      p == On202(env)
      x == OuterExcept(IF env.status = 200 THEN r.exc ELSE p.exc)
  IN IF env.status = 200
     THEN [o EXCEPT !.store = r.store,
                    !.report = IF r.exc = "none" THEN r.report ELSE x.report,
                    !.escaped = IF r.exc = "none" THEN "none" ELSE x.escaped]
     ELSE IF env.status = 202
     THEN [o EXCEPT !.polls = p.polls, !.trace = p.trace,
                    !.report = IF p.exc = "none" THEN p.report ELSE x.report,
                    !.escaped = IF p.exc = "none" THEN "none" ELSE x.escaped]
     ELSE [o EXCEPT !.report = Report("Execution Error", 0, Missing, "",
                                      PyStr(<<"body">>), env.status)]

MutExecuteAuthRetry(o, env, now) ==
  IF env.auth # "token"
  THEN [o EXCEPT !.tokens = 2, !.report = Plain("Authentication error")]
  ELSE IF env.post_exc # "none"
  THEN IF IsInstance(env.post_exc, "RequestException")
       THEN [o EXCEPT !.tokens = 1, !.posts = <<o.sid>>,
                      !.report = Plain("Network error")]
       ELSE LET x == OuterExcept(env.post_exc)
            IN [o EXCEPT !.tokens = 1, !.posts = <<o.sid>>,
                         !.report = x.report, !.escaped = x.escaped]
  ELSE AfterPost([o EXCEPT !.tokens = 1, !.posts = <<o.sid>>], env, now)

MutExecuteNoPostExcept(o, env, now) ==
  IF env.auth # "token"
  THEN [o EXCEPT !.tokens = 1, !.report = Plain("Authentication error")]
  ELSE IF env.post_exc # "none"
  THEN LET x == OuterExcept(env.post_exc)
       IN [o EXCEPT !.tokens = 1, !.posts = <<o.sid>>,
                    !.report = x.report, !.escaped = x.escaped]
  ELSE AfterPost([o EXCEPT !.tokens = 1, !.posts = <<o.sid>>], env, now)

\* The second try block: token, request, response.
Execute(o, env, now) ==
  IF env.auth # "token"
  THEN \* except Exception as auth_error
       [o EXCEPT !.tokens = 1, !.report = Plain("Authentication error")]
  ELSE IF env.post_exc # "none"
  THEN \* except requests.exceptions.RequestException as req_error
       IF IsInstance(env.post_exc, "RequestException")
       THEN [o EXCEPT !.tokens = 1, !.posts = <<o.sid>>,
                      !.report = Plain("Network error")]
       ELSE LET x == OuterExcept(env.post_exc)
            IN [o EXCEPT !.tokens = 1, !.posts = <<o.sid>>,
                         !.report = x.report, !.escaped = x.escaped]
  ELSE AfterPost([o EXCEPT !.tokens = 1, !.posts = <<o.sid>>], env, now)

\* The whole tool: the first try block (session id, tracker, configuration
\* check), then the second.  n is the ordinal of the invocation, which is also
\* the reading of the clock.
execute_in_dynamic_session(store, tools, seen, endpoint, n, env) ==
  LET r == ResolveSession(store, n)
      t == TrackInvocation(tools, seen, r.sid)
      o == Outcome(store, t.tools, t.seen, r.sid, r.minted, 0, <<>>, 0,
                   NoReport, "none")
  IN IF ~Configured(endpoint)
     THEN [o EXCEPT !.report = Plain("Configuration Error")]
     ELSE Execute(o, env, n)

(***************************************************************************)
(* The environment's answers to one invocation, and the sets they are      *)
(* drawn from.                                                             *)
(***************************************************************************)
MaxCalls == 3

MaxTextLen == 2

Requests == {"r1", "r2"}

ConvIds == {"default", "user_123"}

Codes == {"print(2+2)"}

TextAtoms == {"4", "Traceback", "Error:", "Exception:"}

Texts == UNION {[1..k -> TextAtoms] : k \in 0..MaxTextLen}

StdoutValues == {Missing, None} \cup {PyStr(t) : t \in Texts}

StderrValues == {Missing, EmptyStr, PyStr(<<"boom">>)}

StatusValues == {Missing, Success, Failed}

ReturnCodes == {Missing, None, PyInt(0), PyInt(1)}

SuccessValues == {Missing, PyBool(TRUE), PyBool(FALSE)}

Unreadables ==
  { Unreadable("invalid", "missing"), Unreadable("scalar", "missing"),
    Unreadable("array", "missing"), Unreadable("object", "null") }

WrappedBodies ==
  { Wrapped(o, e, st, rc) :
      o \in StdoutValues, e \in StderrValues, st \in StatusValues, rc \in ReturnCodes }

DirectBodies ==
  { Direct(o, e, rc, ok) :
      o \in StdoutValues, e \in StderrValues, rc \in ReturnCodes, ok \in SuccessValues }

AllBodies == WrappedBodies \cup DirectBodies \cup Unreadables

Traceback == PyStr(<<"Traceback", "Error:">>)

\* The bodies the gateway specification draws from: the scenarios of the
\* specification's section 8 and one body for each way the branch can end.
Bodies ==
  { Direct(PyStr(<<"4">>), EmptyStr, PyInt(0), PyBool(TRUE)),
    Wrapped(Traceback, EmptyStr, Failed, PyInt(1)),
    Unreadable("invalid", "missing"),
    Unreadable("object", "null") }

OkBody == Direct(PyStr(<<"4">>), EmptyStr, PyInt(0), PyBool(TRUE))

Env(code, auth, post_exc, status, body, location, pending, pending_kind, final) ==
  [ code |-> code, auth |-> auth, post_exc |-> post_exc, status |-> status,
    body |-> body, location |-> location, pending |-> pending,
    pending_kind |-> pending_kind, final |-> final ]

NoEnv == Env("", "token", "none", 0, OkBody, FALSE, 0, "running", "Completed")

Envs200(bodies) ==
  { Env(c, "token", "none", 200, b, FALSE, 0, "running", "Completed") :
      c \in Codes, b \in bodies }

PollFinals ==
  {"Completed", "Timeout", "ConnectionError", "JSONDecodeError", "AttributeError"}

Envs202 ==
  { Env(c, "token", "none", 202, OkBody, FALSE, 0, "running", "Completed") :
      c \in Codes }
  \cup { Env(c, "token", "none", 202, OkBody, TRUE, k, pk, f) :
           c \in Codes, k \in 0..(POLL_ATTEMPTS - 1), pk \in {"non200", "running"},
           f \in PollFinals }
  \cup { Env(c, "token", "none", 202, OkBody, TRUE, POLL_ATTEMPTS, pk, "Completed") :
           c \in Codes, pk \in {"non200", "running"} }

EnvsFailed ==
  { Env(c, "CredentialUnavailableError", "none", 0, OkBody, FALSE, 0, "running",
        "Completed") : c \in Codes }
  \cup { Env(c, "token", x, 0, OkBody, FALSE, 0, "running", "Completed") :
           c \in Codes, x \in {"Timeout", "ConnectionError"} }
  \cup { Env(c, "token", "none", st, OkBody, FALSE, 0, "running", "Completed") :
           c \in Codes, st \in {400, 408, 500} }

\* Every answer of the environment to one invocation.
AllEnvs == Envs200(AllBodies) \cup Envs202 \cup EnvsFailed

\* The answers the gateway specification draws from: one for each way an
\* invocation can end.
Envs ==
  Envs200(Bodies)
  \cup { e \in Envs202 : e.pending_kind = "running" /\ e.pending = POLL_ATTEMPTS }
  \cup { e \in EnvsFailed : e.post_exc # "Timeout" /\ e.status \in {0, 500} }

(***************************************************************************)
(* The session container of src/session-container/server.py: its POST      *)
(* /execute handler.  A request is the JSON body the handler parses; run   *)
(* is what the subprocess does if the handler starts one.                  *)
(***************************************************************************)
Blank == PyStr(<<" ">>)

\* str.strip(): the text without its leading and trailing whitespace.
Strip(v) ==
  LET inked == {i \in 1..Len(v.s) : v.s[i] # " "}
  IN IF inked = {} THEN EmptyStr
     ELSE PyStr(SubSeq(v.s, CHOOSE i \in inked : \A j \in inked : i <= j,
                            CHOOSE i \in inked : \A j \in inked : i >= j))

\* str.lower() on the language names the requests carry.
Lower(v) == IF v = PyStr(<<"Python">>) THEN PyStr(<<"python">>) ELSE v

\* a or b
PyOr(a, b) == IF Truthy(a) THEN a ELSE b

\* data.get(key): a missing key reads as None.
GetOrNone(v) == DictGet(v, None)

\* The properties the handler dispatches on.
Props(code, shellCommand, language) ==
  [ code |-> code, shellCommand |-> shellCommand, language |-> language ]

\* The request body: json says what request.get_json yields ("invalid": it
\* raises; "falsy": an empty object, list or text, 0 or null; "nondict": a
\* list, number or text that is not falsy; "object"); properties is "missing",
\* "empty", "null" or "object" (a non-empty object, with the fields of props);
\* the other fields are the top-level keys.
ServerRequest(json, properties, props, code, shellCommand, command, language) ==
  [ json |-> json, properties |-> properties, props |-> props, code |-> code,
    shellCommand |-> shellCommand, command |-> command, language |-> language ]

\* The fallback: properties built from the top-level fields that are not None.
TopLevelProps(data) ==
  LET tl_code == GetOrNone(data.code)
      tl_cmd == PyOr(GetOrNone(data.shellCommand), GetOrNone(data.command))
      tl_lang == GetOrNone(data.language)
      key(v) == IF v = None THEN Missing ELSE v
  IN Props(key(tl_code), key(tl_cmd), key(tl_lang))

\* A response: the HTTP status, whether the body has a properties object or
\* an error text, the fields of properties, and what the handler ran.
ServerResponse(status_code, properties, status, stdout, stderr, returnCode, ran) ==
  [ status_code |-> status_code, properties |-> properties, status |-> status,
    stdout |-> stdout, stderr |-> stderr, returnCode |-> returnCode, ran |-> ran ]

\* return jsonify({"error": ...}), 400
ErrorResponse(ran) == ServerResponse(400, "missing", Missing, Missing, Missing, Missing, ran)

\* except subprocess.TimeoutExpired
TimeoutResponse(ran) ==
  ServerResponse(408, "object", Failed, Missing, PyStr(<<"Execution timed out">>),
                 Missing, ran)

\* except Exception as e
InternalErrorResponse(ran) ==
  ServerResponse(500, "object", Failed, Missing, PyStr(<<"Execution error">>),
                 Missing, ran)

\* subprocess.run and the response built from its result.
RunSubprocess(ran, run) ==
  CASE run.ends = "TimeoutExpired" -> TimeoutResponse(ran)
    [] run.ends = "OSError" -> InternalErrorResponse(ran)
    [] OTHER ->
         ServerResponse(200, "object",
                        IF run.returncode = 0 THEN Success ELSE Failed,
                        run.stdout, run.stderr, PyInt(run.returncode), ran)

SupportedLanguages ==
  [ python |-> "python", javascript |-> "javascript", js |-> "javascript",
    bash |-> "bash", sh |-> "bash", powershell |-> "powershell",
    pwsh |-> "powershell" ]

\* if shell_command: the shell branch is taken for any shell command that is not empty.
RunsShell(shell_command, has_shell_command) == Truthy(shell_command)

MutRunCode(language, run) ==
  IF language.kind # "str"
  THEN InternalErrorResponse("none")
  ELSE LET name == IF language = EmptyStr THEN "" ELSE Lower(language).s[1]
       IN IF name \in DOMAIN SupportedLanguages
          THEN RunSubprocess(SupportedLanguages[name], run)
          ELSE InternalErrorResponse("none")

\* elif code: the dispatch on language.lower().
RunCode(language, run) ==
  IF language.kind # "str"
  THEN \* language.lower() on None
       InternalErrorResponse("none")
  ELSE LET name == IF language = EmptyStr THEN "" ELSE Lower(language).s[1]
       IN IF name \in DOMAIN SupportedLanguages
          THEN RunSubprocess(SupportedLanguages[name], run)
          ELSE ErrorResponse("none")

\* bool(code and code.strip())
HasContent(v) == Truthy(v) /\ Truthy(Strip(v))

\* execute_code for a POST: the response to request data when the subprocess does run.
execute_code(data, run) ==
  IF data.json \in {"invalid", "falsy"}
  THEN ErrorResponse("none")
  ELSE IF data.json = "nondict" \/ data.properties = "null"
  THEN \* data.get on a list, {**properties} on None
       InternalErrorResponse("none")
  ELSE LET properties == IF data.properties = "object" THEN data.props
                         ELSE TopLevelProps(data)
           code == DictGet(properties.code, EmptyStr)
           shell_command == DictGet(properties.shellCommand, EmptyStr)
           language == DictGet(properties.language, PyStr(<<"python">>))
           has_code == HasContent(code)
           has_shell_command == HasContent(shell_command)
       IN IF ~has_code /\ ~has_shell_command
          THEN ErrorResponse("none")
          ELSE IF RunsShell(shell_command, has_shell_command)
          THEN RunSubprocess("shell", run)
          ELSE RunCode(language, run)

\* The request bodies and subprocess results the container is given.
NoProps == Props(Missing, Missing, Missing)

CodeValues == {Missing, None, EmptyStr, Blank, PyStr(<<"print(2+2)">>)}

CommandValues == {Missing, EmptyStr, Blank, PyStr(<<"ls">>)}

LanguageValues ==
  {Missing, None, PyStr(<<"python">>), PyStr(<<"Python">>), PyStr(<<"js">>),
   PyStr(<<"ruby">>)}

ServerRequests ==
  { ServerRequest(j, "missing", NoProps, Missing, Missing, Missing, Missing) :
      j \in {"invalid", "falsy", "nondict"} }
  \cup { ServerRequest("object", "object", Props(c, s, l), tc, Missing, Missing, Missing) :
           c \in CodeValues, s \in CommandValues, l \in LanguageValues,
           tc \in {Missing, PyStr(<<"print(2+2)">>)} }
  \cup { ServerRequest("object", p, NoProps, c, s, m, l) :
           p \in {"missing", "empty", "null"}, c \in CodeValues,
           s \in {Missing, Blank, PyStr(<<"ls">>)}, m \in {Missing, Blank, PyStr(<<"ls">>)},
           l \in {Missing, PyStr(<<"bash">>), PyStr(<<"ruby">>)} }

Run(ends, returncode, stdout, stderr) ==
  [ends |-> ends, returncode |-> returncode, stdout |-> stdout, stderr |-> stderr]

Runs ==
  { Run("exit", 0, PyStr(<<"4">>), EmptyStr),
    Run("exit", 0, EmptyStr, PyStr(<<"warning">>)),
    Run("exit", 1, EmptyStr, PyStr(<<"boom">>)),
    Run("TimeoutExpired", 0, EmptyStr, EmptyStr),
    Run("OSError", 0, EmptyStr, EmptyStr) }

NoExchange ==
  [ method |-> "", data |-> ServerRequest("falsy", "missing", NoProps, Missing, Missing,
                                          Missing, Missing),
    run |-> Run("exit", 0, EmptyStr, EmptyStr),
    resp |-> ServerResponse(0, "missing", Missing, Missing, Missing, Missing, "none") ]

(***************************************************************************)
(* The state of the process.                                               *)
(***************************************************************************)
VARIABLES
  SESSION_POOL_ENDPOINT,    \* whether the environment variable is set
  agent,                    \* whether the agent was created at start-up
  active_sessions,          \* the Session Store
  current_request_sessions, \* the session ids seen in the current request
  current_tools_used,       \* the tracker list
  conversation_threads,     \* the conversation ids that have a thread
  pc,                       \* where each chat request is
  resp,                     \* what each chat request returned
  log,                      \* the tool invocations made for each chat request
  calls,                    \* the number of tool invocations so far
  last,                     \* the most recent invocation of the execution tool
  inflight,                 \* each chat request's invocation that awaits the sandbox
  disturbed,                \* whether another request touched the tracker meanwhile
  container                 \* the session container's most recent exchange

gateway ==
  << SESSION_POOL_ENDPOINT, agent, active_sessions, current_request_sessions,
     current_tools_used, conversation_threads, pc, resp, log, calls, last,
     inflight, disturbed >>

vars == << gateway, container >>

MutDeepCopy(store) == [alias |-> TRUE, val |-> <<>>]

\* copy.deepcopy(active_sessions): a value of its own, not the dict itself.
DeepCopy(store) == [alias |-> FALSE, val |-> store]

\* What a held mapping shows when it is read: the dict it aliases, or its own value.
View(m) == IF m.alias THEN active_sessions ELSE m.val

NoSnapshot == [alias |-> FALSE, val |-> <<>>]

NoResp == [code |-> 0, streaming |-> FALSE, tools_used |-> <<>>,
           active_sessions |-> NoSnapshot]

NoCall ==
  [ req |-> "", n |-> 0, env |-> NoEnv, sid |-> 0, minted |-> FALSE, tokens |-> 0,
    posts |-> <<>>, polls |-> 0, trace |-> <<>>, report |-> NoReport,
    escaped |-> "none" ]

\* No invocation of the request is between its tracker append and its response.
NoFlight == [active |-> FALSE, n |-> 0, sid |-> 0, minted |-> FALSE]

Init ==
  /\ SESSION_POOL_ENDPOINT \in BOOLEAN
  /\ agent \in BOOLEAN
  /\ active_sessions = <<>>
  /\ current_request_sessions = {}
  /\ current_tools_used = <<>>
  /\ conversation_threads = {}
  /\ pc = [r \in Requests |-> "idle"]
  /\ resp = [r \in Requests |-> NoResp]
  /\ log = [r \in Requests |-> <<>>]
  /\ calls = 0
  /\ last = NoCall
  /\ inflight = [r \in Requests |-> NoFlight]
  /\ disturbed = [r \in Requests |-> FALSE]
  /\ container = NoExchange

Process == <<SESSION_POOL_ENDPOINT, agent>>

\* The chat requests other than r that are between their tracker reset and their
\* reading of the tracker learn that r reset the tracker or appended to it.
Disturb(r) ==
  [q \in Requests |-> IF q # r /\ pc[q] = "agent" THEN TRUE ELSE disturbed[q]]

\* Requests are named in the order they arrive.
Earlier(q, r) == q = "r1" /\ r = "r2"

\* Chat.post with no prompt: 400 before anything is touched.
ChatBadRequest(r) ==
  /\ pc[r] = "idle"
  /\ \A q \in Requests : Earlier(q, r) => pc[q] # "idle"
  /\ resp' = [resp EXCEPT ![r] = [NoResp EXCEPT !.code = 400]]
  /\ pc' = [pc EXCEPT ![r] = "done"]
  /\ UNCHANGED << Process, container, inflight, disturbed, active_sessions,
                  current_request_sessions,
                  current_tools_used, conversation_threads, log, calls, last >>

\* Chat.post without an agent: 500.
ChatNoAgent(r) ==
  /\ pc[r] = "idle"
  /\ \A q \in Requests : Earlier(q, r) => pc[q] # "idle"
  /\ ~agent
  /\ resp' = [resp EXCEPT ![r] = [NoResp EXCEPT !.code = 500]]
  /\ pc' = [pc EXCEPT ![r] = "done"]
  /\ UNCHANGED << Process, container, inflight, disturbed, active_sessions,
                  current_request_sessions,
                  current_tools_used, conversation_threads, log, calls, last >>

MutChatBeginKeepsList(r, serial) ==
  /\ pc[r] = "idle"
  /\ agent
  /\ serial => \A q \in Requests : pc[q] \notin {"agent", "stream"}
  /\ \A q \in Requests : Earlier(q, r) => pc[q] # "idle"
  /\ \E c \in ConvIds : conversation_threads' = conversation_threads \cup {c}
  /\ resp' = resp
  /\ current_request_sessions' = {}
  /\ pc' = [pc EXCEPT ![r] = "agent"]
  /\ disturbed' = [Disturb(r) EXCEPT ![r] = FALSE]
  /\ UNCHANGED << Process, container, inflight, active_sessions,
                  current_tools_used, log, calls, last >>

MutChatBegin(r, serial) ==
  /\ pc[r] = "idle"
  /\ agent
  /\ serial => \A q \in Requests : pc[q] \notin {"agent", "stream"}
  /\ \A q \in Requests : Earlier(q, r) => pc[q] # "idle"
  /\ \E c \in ConvIds : conversation_threads' = conversation_threads \cup {c}
  /\ resp' = resp
  /\ current_tools_used' = <<>>
  /\ pc' = [pc EXCEPT ![r] = "agent"]
  /\ disturbed' = [Disturb(r) EXCEPT ![r] = FALSE]
  /\ UNCHANGED << Process, container, inflight, active_sessions,
                  current_request_sessions, log, calls, last >>

\* Chat.post up to agent.run: the conversation thread and the tracker reset.
\* serial: the request starts only when no other chat request is in flight.
ChatBegin(r, serial) ==
  /\ pc[r] = "idle"
  /\ agent
  /\ serial => \A q \in Requests : pc[q] \notin {"agent", "stream"}
  /\ \A q \in Requests : Earlier(q, r) => pc[q] # "idle"
  /\ \E c \in ConvIds : conversation_threads' = conversation_threads \cup {c}
  /\ resp' = resp
  /\ current_tools_used' = <<>>
  /\ current_request_sessions' = {}
  /\ pc' = [pc EXCEPT ![r] = "agent"]
  /\ disturbed' = [Disturb(r) EXCEPT ![r] = FALSE]
  /\ UNCHANGED << Process, container, inflight, active_sessions, log, calls, last >>

\* The agent calls search_tools_available.
SearchTools(r) ==
  /\ pc[r] \in {"agent", "stream"}
  /\ calls < MaxCalls
  /\ calls' = calls + 1
  /\ current_tools_used' =
       Append(current_tools_used, [name |-> "search_tools_available", session_id |-> 0])
  /\ log' = [log EXCEPT ![r] = Append(@, [name |-> "search_tools_available",
                                          session_id |-> 0])]
  /\ disturbed' = Disturb(r)
  /\ UNCHANGED << Process, container, inflight, active_sessions,
                  current_request_sessions,
                  conversation_threads, pc, resp, last >>

\* The agent calls execute_in_dynamic_session, and the environment answers env.
ExecuteTool(r, envs) ==
  /\ pc[r] \in {"agent", "stream"}
  /\ calls < MaxCalls
  /\ \E env \in (IF SESSION_POOL_ENDPOINT THEN envs ELSE {NoEnv}) :
       LET o == execute_in_dynamic_session(active_sessions, current_tools_used,
                  current_request_sessions, SESSION_POOL_ENDPOINT, calls + 1, env)
       IN /\ active_sessions' = o.store
          /\ current_tools_used' = o.tools
          /\ current_request_sessions' = o.seen
          /\ last' = [ req |-> r, n |-> calls + 1, env |-> env, sid |-> o.sid,
                       minted |-> o.minted, tokens |-> o.tokens, posts |-> o.posts,
                       polls |-> o.polls, trace |-> o.trace, report |-> o.report,
                       escaped |-> o.escaped ]
          /\ log' = [log EXCEPT ![r] = Append(@, ExecRecord(o.sid))]
  /\ calls' = calls + 1
  /\ disturbed' = Disturb(r)
  /\ UNCHANGED << Process, container, inflight, conversation_threads, pc, resp >>

\* agent.run or agent.run_stream raises: the handler answers 500 with the error.
ChatError(r) ==
  /\ pc[r] \in {"agent", "stream"}
  /\ resp' = [resp EXCEPT ![r] = [@ EXCEPT !.code = 500]]
  /\ pc' = [pc EXCEPT ![r] = "done"]
  /\ UNCHANGED << Process, container, inflight, disturbed, active_sessions,
                  current_request_sessions,
                  current_tools_used, conversation_threads, log, calls, last >>

\* Chat.post after agent.run: the copy of the tracker list and of the store.
ChatEnd(r) ==
  /\ pc[r] = "agent"
  /\ LET tools_used == current_tools_used
         sessions_copy == DeepCopy(active_sessions)
     IN resp' = [resp EXCEPT ![r] =
                   [@ EXCEPT !.code = 200, !.tools_used = tools_used,
                             !.active_sessions =
                                IF Len(View(sessions_copy)) > 0
                                THEN sessions_copy ELSE NoSnapshot]]
  /\ pc' = [pc EXCEPT ![r] = "done"]
  /\ UNCHANGED << Process, container, inflight, disturbed, active_sessions,
                  current_request_sessions,
                  current_tools_used, conversation_threads, log, calls, last >>

\* ChatStream.post up to agent.run_stream: the conversation thread, and no
\* reset of the tracker.
ChatStreamBegin(r, serial) ==
  /\ pc[r] = "idle"
  /\ agent
  /\ serial => \A q \in Requests : pc[q] \notin {"agent", "stream"}
  /\ \A q \in Requests : Earlier(q, r) => pc[q] # "idle"
  /\ \E c \in ConvIds : conversation_threads' = conversation_threads \cup {c}
  /\ pc' = [pc EXCEPT ![r] = "stream"]
  /\ UNCHANGED << Process, container, inflight, disturbed, active_sessions,
                  current_request_sessions,
                  current_tools_used, resp, log, calls, last >>

\* ChatStream.post after agent.run_stream: the response carries the text only.
ChatStreamEnd(r) ==
  /\ pc[r] = "stream"
  /\ resp' = [resp EXCEPT ![r] = [NoResp EXCEPT !.code = 200, !.streaming = TRUE]]
  /\ pc' = [pc EXCEPT ![r] = "done"]
  /\ UNCHANGED << Process, container, inflight, disturbed, active_sessions,
                  current_request_sessions,
                  current_tools_used, conversation_threads, log, calls, last >>

\* SessionManager.delete: clear the conversation thread of a session id
\* (200), or answer 404 when there is none.
SessionManager_delete(session_id) ==
  /\ conversation_threads' =
       IF session_id \in conversation_threads
       THEN conversation_threads \ {session_id}
       ELSE conversation_threads
  /\ UNCHANGED << Process, container, inflight, disturbed, active_sessions,
                  current_request_sessions,
                  current_tools_used, pc, resp, log, calls, last >>

\* Health.get: reads len(conversation_threads) and len(active_sessions).
Health_get ==
  /\ Cardinality(conversation_threads) + Len(active_sessions) >= 0
  /\ UNCHANGED vars

\* The gateway with chat requests handled one at a time.
Next ==
  \/ \E r \in Requests : ChatBadRequest(r)
  \/ \E r \in Requests : ChatNoAgent(r)
  \/ \E r \in Requests : ChatBegin(r, TRUE)
  \/ \E r \in Requests : SearchTools(r)
  \/ \E r \in Requests : ExecuteTool(r, Envs)
  \/ \E r \in Requests : ChatError(r)
  \/ \E r \in Requests : ChatEnd(r)
  \/ \E r \in Requests : ChatStreamBegin(r, TRUE)
  \/ \E r \in Requests : ChatStreamEnd(r)
  \/ \E c \in ConvIds : SessionManager_delete(c)
  \/ Health_get

Spec == Init /\ [][Next]_vars

\* The answers one invocation is checked under: the first chat request runs
\* one execution that is answered 200, the second chat request then runs one
\* invocation that is answered in any way at all.
ToolEnvs(r) ==
  IF r = "r1" THEN (IF calls = 0 THEN Envs200(Bodies) ELSE {})
  ELSE (IF log[r] = <<>> THEN AllEnvs ELSE {})

\* One invocation under every answer of the environment, on an empty store or
\* on the store an earlier execution left.
NextTool ==
  \/ \E r \in Requests : ChatBegin(r, TRUE)
  \/ \E r \in Requests : ExecuteTool(r, ToolEnvs(r))
  \/ \E r \in Requests : ChatEnd(r)

SpecTool == Init /\ [][NextTool]_vars

(***************************************************************************)
(* Chat requests in flight at the same time: app.run serves each request   *)
(* on a thread of its own, and a thread that waits for the sandbox lets    *)
(* the others run.  An invocation is then two steps: up to the POST, and   *)
(* from the response on.                                                   *)
(***************************************************************************)
\* execute_in_dynamic_session up to the request: the session id, the tracker
\* and the configuration check (which ends the invocation at once).
ToolBegin(r) ==
  /\ pc[r] \in {"agent", "stream"}
  /\ ~inflight[r].active
  /\ calls < MaxCalls
  /\ LET s == ResolveSession(active_sessions, calls + 1)
         t == TrackInvocation(current_tools_used, current_request_sessions, s.sid)
     IN /\ current_tools_used' = t.tools
        /\ current_request_sessions' = t.seen
        /\ log' = [log EXCEPT ![r] = Append(@, ExecRecord(s.sid))]
        /\ IF Configured(SESSION_POOL_ENDPOINT)
           THEN /\ inflight' = [inflight EXCEPT ![r] =
                       [active |-> TRUE, n |-> calls + 1, sid |-> s.sid,
                        minted |-> s.minted]]
                /\ last' = last
           ELSE /\ inflight' = inflight
                /\ last' = [NoCall EXCEPT !.req = r, !.n = calls + 1, !.sid = s.sid,
                                          !.minted = s.minted,
                                          !.report = Plain("Configuration Error")]
  /\ calls' = calls + 1
  /\ disturbed' = Disturb(r)
  /\ UNCHANGED << Process, container, active_sessions, conversation_threads, pc, resp >>

\* execute_in_dynamic_session from the request on: the environment answers
\* env, and the response is handled on the store as it is by then.
ToolEnd(r, envs) ==
  /\ inflight[r].active
  /\ \E env \in envs :
       LET f == inflight[r]
           o == Execute(Outcome(active_sessions, current_tools_used,
                                current_request_sessions, f.sid, f.minted, 0, <<>>, 0,
                                NoReport, "none"), env, f.n)
       IN /\ active_sessions' = o.store
          /\ last' = [ req |-> r, n |-> f.n, env |-> env, sid |-> o.sid,
                       minted |-> o.minted, tokens |-> o.tokens, posts |-> o.posts,
                       polls |-> o.polls, trace |-> o.trace, report |-> o.report,
                       escaped |-> o.escaped ]
  /\ inflight' = [inflight EXCEPT ![r] = NoFlight]
  /\ UNCHANGED << Process, container, disturbed, current_tools_used,
                  current_request_sessions, conversation_threads, pc, resp, log, calls >>

\* The answers the concurrent specification draws from: the sandbox runs the
\* code and answers with its result, or refuses.
ConcurrentEnvs ==
  {e \in Envs : e.status = 500 \/ (e.status = 200 /\ e.body = OkBody)}

\* The gateway with its chat requests on threads of their own.  A request's
\* agent awaits each tool call before it goes on.
NextConcurrent ==
  \/ \E r \in Requests : ChatBegin(r, FALSE)
  \/ \E r \in Requests : ~inflight[r].active /\ SearchTools(r)
  \/ \E r \in Requests : ToolBegin(r)
  \/ \E r \in Requests : ToolEnd(r, ConcurrentEnvs)
  \/ \E r \in Requests : ~inflight[r].active /\ ChatEnd(r)

SpecConcurrent == Init /\ [][NextConcurrent]_vars

\* POST /execute (and POST /, which calls execute_code).
execute_code_post ==
  /\ container = NoExchange
  /\ \E data \in ServerRequests, run \in Runs :
       container' = [ method |-> "POST", data |-> data, run |-> run,
                      resp |-> execute_code(data, run) ]
  /\ UNCHANGED gateway

\* GET /execute: the handler answers that the endpoint is working.
execute_code_get ==
  /\ container = NoExchange
  /\ container' = [NoExchange EXCEPT !.method = "GET",
                     !.resp = ServerResponse(200, "missing", Missing, Missing, Missing,
                                             Missing, "none")]
  /\ UNCHANGED gateway

\* The response has been sent: the container keeps nothing of the exchange.
ResponseSent ==
  /\ container # NoExchange
  /\ container' = NoExchange
  /\ UNCHANGED gateway

\* The session container, one request at a time.
NextServer ==
  \/ execute_code_post
  \/ execute_code_get
  \/ ResponseSent

SpecServer == Init /\ [][NextServer]_vars

(***************************************************************************)
(* The properties.  last is the most recent invocation of the execution    *)
(* tool, and the store is as that invocation left it.                      *)
(***************************************************************************)
\* The most recent invocation got HTTP 200 from the sandbox.
Ran200 ==
  /\ last.n > 0
  /\ SESSION_POOL_ENDPOINT
  /\ last.env.auth = "token"
  /\ last.env.post_exc = "none"
  /\ last.env.status = 200

\* What a response of either wire shape carries as stdout and stderr
\* (an absent field is an empty text).
RespStdout(b) ==
  IF b.properties = "object" THEN DictGet(b.stdout, EmptyStr)
  ELSE DictGet(b.output, EmptyStr)

RespStderr(b) ==
  IF b.properties = "object" THEN DictGet(b.stderr, EmptyStr)
  ELSE DictGet(b.error, EmptyStr)

RespReturnCode(b) == IF b.properties = "object" THEN b.returnCode ELSE b.return_code

\* A body of wire shape A or B: a JSON object, wrapped or direct, whose stdout is text.
WireShaped(b) ==
  /\ b.json = "object"
  /\ b.properties \in {"object", "missing"}
  /\ RespStdout(b).kind = "str"

\* The ten substrings of the specification's classifier rule.
ListedErrorSubstrings ==
  { <<"Error:">>, <<"Traceback">>, <<"Exception:">>, <<"Import", "Error:">>,
    <<"ModuleNotFound", "Error:">>, <<"Syntax", "Error:">>, <<"Name", "Error:">>,
    <<"Type", "Error:">>, <<"Value", "Error:">>, <<"Attribute", "Error:">> }

ContainsListed(t) == \E k \in ListedErrorSubstrings : Contains(t.s, k)

\* The record of the session the most recent invocation used.
LastRecord == Get(active_sessions, last.sid)

\* C1: every invocation of execute_in_dynamic_session returns a string report
\* and lets no exception escape, whatever the endpoint setting, the token
\* acquisition, the POST, the status, the body and the polls turn out to be.
C1_AlwaysReturnsReport ==
  last.n > 0 => last.escaped = "none" /\ last.report.title # ""

\* A poll raised a transport failure and the tool returned the system error report.
C1_Witness ==
  /\ last.n > 0
  /\ last.env.status = 202
  /\ last.env.location
  /\ last.env.pending < POLL_ATTEMPTS
  /\ last.env.final = "ConnectionError"
  /\ last.report.title = "System Error"
  /\ last.escaped = "none"

\* C2: once the store holds a session S, every later invocation resolves to S,
\* sends its POST (if it sends one) with identifier S, and mints no id.  Chat
\* requests are handled one at a time.
C2_SessionReuse ==
  [][\A S \in Keys(active_sessions) :
       last'.n = calls + 1 =>
         /\ last'.sid = S
         /\ ~last'.minted
         /\ \A i \in 1..Len(last'.posts) : last'.posts[i] = S]_vars

\* The first invocation recorded session 1; the third, made for the second
\* request after an invocation that recorded nothing, posted with identifier 1.
C2_Witness ==
  /\ last.n = 3
  /\ last.req = "r2"
  /\ last.sid = 1
  /\ ~last.minted
  /\ last.posts = <<1>>
  /\ Keys(active_sessions) = {1}
  /\ log["r1"] = <<ExecRecord(1), ExecRecord(1)>>
  /\ LastRecord.execution_count = 2
  /\ last.report.title = "Code Execution Successful"
  /\ Cardinality(conversation_threads) = 2

\* The number of records of the execution tool in seq that carry session id sid.
CountExec(seq, sid) ==
  Cardinality({i \in 1..Len(seq) : seq[i] = ExecRecord(sid)})

\* The tools_used list of chat request r: the tracker while it runs, the
\* list it returned once it has answered 200.
ToolsUsedOf(r) == IF pc[r] = "agent" THEN current_tools_used ELSE resp[r].tools_used

HasToolsUsed(r) ==
  \/ pc[r] = "agent"
  \/ pc[r] = "done" /\ resp[r].code = 200 /\ ~resp[r].streaming

\* C3: a chat request that invoked the execution tool two or more times with
\* the same resolved session id has exactly one record with that id in its
\* tools_used list, whatever each invocation's outcome.
C3_TrackerDedup ==
  \A r \in Requests : HasToolsUsed(r) =>
    \A sid \in 1..MaxCalls :
      CountExec(log[r], sid) >= 2 => CountExec(ToolsUsedOf(r), sid) = 1

\* A chat request returned one record after three invocations with session 1.
C3_Witness ==
  \E r \in Requests :
    /\ pc[r] = "done" /\ resp[r].code = 200 /\ ~resp[r].streaming
    /\ CountExec(log[r], 1) = 3
    /\ CountExec(resp[r].tools_used, 1) = 1

\* C4: after an HTTP 200 response of either wire shape whose stderr is
\* non-empty, the session's last_status is Failed, whatever the return code
\* and the status or success field.
C4_StderrFails ==
  (Ran200 /\ WireShaped(last.env.body) /\ Truthy(RespStderr(last.env.body)))
    => LastRecord.last_status = Failed

\* A wrapped response with stderr, return code 0 and status Success was recorded Failed.
C4_Witness ==
  /\ Ran200
  /\ last.env.body.properties = "object"
  /\ Truthy(RespStderr(last.env.body))
  /\ last.env.body.returnCode = PyInt(0)
  /\ last.env.body.status = Success
  /\ ~ContainsListed(RespStdout(last.env.body))
  /\ LastRecord.last_status = Failed

\* C5: after an HTTP 200 response of either wire shape whose stdout contains
\* a listed error substring and whose stderr is empty, the session's
\* last_stderr is the response's stdout, its last_stdout is empty and its
\* last_status is Failed, whatever the return code and the status or success field.
C5_ErrorRelocated ==
  ( /\ Ran200
    /\ WireShaped(last.env.body)
    /\ ContainsListed(RespStdout(last.env.body))
    /\ ~Truthy(RespStderr(last.env.body)) )
    => /\ LastRecord.last_stderr = RespStdout(last.env.body)
       /\ LastRecord.last_stdout = EmptyStr
       /\ LastRecord.last_status = Failed

\* A direct response with a traceback in its output, return code 0 and
\* success true had the traceback moved to last_stderr.
C5_Witness ==
  /\ Ran200
  /\ last.env.body.properties = "missing"
  /\ last.env.body.json = "object"
  /\ last.env.body.output = PyStr(<<"4", "Traceback">>)
  /\ last.env.body.return_code = PyInt(0)
  /\ last.env.body.success = PyBool(TRUE)
  /\ LastRecord.last_stderr = PyStr(<<"4", "Traceback">>)
  /\ LastRecord.last_stdout = EmptyStr

\* The case of C6: HTTP 200, either wire shape, empty stderr, no listed
\* substring in stdout, return code 0 or absent.
C6_Case ==
  /\ Ran200
  /\ WireShaped(last.env.body)
  /\ ~Truthy(RespStderr(last.env.body))
  /\ ~ContainsListed(RespStdout(last.env.body))
  /\ RespReturnCode(last.env.body) \in {PyInt(0), Missing}

\* The record says Success and holds the response's stdout and stderr.
C6_Recorded ==
  /\ LastRecord.last_status = Success
  /\ LastRecord.last_stdout = RespStdout(last.env.body)
  /\ LastRecord.last_stderr = RespStderr(last.env.body)

\* The response raises no failure flag: a wrapped status other than "Failed",
\* a direct success that is true or absent.
C6_NoFailureFlag ==
  IF last.env.body.properties = "object"
  THEN DictGet(last.env.body.status, EmptyStr) # Failed
  ELSE last.env.body.success \in {Missing, PyBool(TRUE)}

\* C6 as stated: after an HTTP 200 response of either wire shape with empty
\* stderr, no listed error substring in stdout and return code 0 or absent,
\* the session's last_status is Success and last_stdout, last_stderr are the
\* response's stdout and stderr.
C6_Original == C6_Case => C6_Recorded

\* C6 as amended: the same, for a response that raises no failure flag
\* (wrapped status is not "Failed", direct success is true or absent).
C6_SuccessRecorded == (C6_Case /\ C6_NoFailureFlag) => C6_Recorded

\* A direct response without return_code and success, with output "4", was
\* recorded as Success with that output.
C6_Witness ==
  /\ C6_Case
  /\ last.env.body.properties = "missing"
  /\ last.env.body.return_code = Missing
  /\ last.env.body.success = Missing
  /\ last.env.body.output = PyStr(<<"4">>)
  /\ LastRecord.last_status = Success
  /\ LastRecord.last_stdout = PyStr(<<"4">>)

\* C7: with the sandbox endpoint unset, every invocation returns the
\* "Configuration Error" report and acquires no token, sends no POST and
\* makes no poll.
C7_ConfigurationError ==
  (~SESSION_POOL_ENDPOINT /\ last.n > 0)
    => /\ last.report.title = "Configuration Error"
       /\ last.tokens = 0
       /\ last.posts = <<>>
       /\ last.polls = 0

\* The second invocation of a process without endpoint returned the report.
C7_Witness ==
  /\ ~SESSION_POOL_ENDPOINT
  /\ last.n = 2
  /\ last.report.title = "Configuration Error"
  /\ last.posts = <<>>

\* The step is an invocation whose POST was answered HTTP 202.
C8_Accepted ==
  /\ last'.n = calls + 1
  /\ SESSION_POOL_ENDPOINT
  /\ last'.env.auth = "token"
  /\ last'.env.post_exc = "none"
  /\ last'.env.status = 202

Returned(r) == pc[r] = "done" /\ resp[r].code = 200 /\ ~resp[r].streaming

\* C9: the active_sessions mapping a POST /chat response returned does not
\* change when a later execution is recorded in the Session Store.
C9_SnapshotIndependent ==
  [][\A r \in Requests :
       Returned(r) =>
         View(resp[r].active_sessions)' = View(resp[r].active_sessions)]_vars

\* A returned mapping holds one execution of a session that has run twice since.
C9_Witness ==
  \E r \in Requests :
    /\ Returned(r)
    /\ Len(View(resp[r].active_sessions)) = 1
    /\ View(resp[r].active_sessions)[1].rec.execution_count = 1
    /\ Len(active_sessions) = 1
    /\ active_sessions[1].rec.execution_count = 2
    /\ active_sessions[1].rec.last_status # View(resp[r].active_sessions)[1].rec.last_status

\* C10: no step removes a session id from the Session Store, changes its
\* created_at or lowers its execution_count; a step that removes a
\* conversation thread removes one thread and nothing else.
C10_StoreMonotone ==
  [][/\ \A S \in Keys(active_sessions) :
          /\ S \in Keys(active_sessions')
          /\ Get(active_sessions', S).created_at = Get(active_sessions, S).created_at
          /\ Get(active_sessions', S).execution_count
               >= Get(active_sessions, S).execution_count
     /\ (conversation_threads' # conversation_threads
           /\ conversation_threads' \subseteq conversation_threads)
          => /\ Cardinality(conversation_threads \ conversation_threads') = 1
             /\ UNCHANGED << active_sessions, current_tools_used,
                             current_request_sessions, pc, resp >>]_vars

\* A session created by the first invocation has run twice, the second time
\* on the third invocation, and every conversation thread has been deleted.
C10_Witness ==
  /\ Len(active_sessions) = 1
  /\ active_sessions[1].rec.created_at = 1
  /\ active_sessions[1].rec.last_used = 3
  /\ active_sessions[1].rec.execution_count = 2
  /\ conversation_threads = {}
  /\ \E r \in Requests : pc[r] = "done"

\* The execution_count the store holds for session S (0 when it holds none).
CountOf(store, S) == IF S \in Keys(store) THEN Get(store, S).execution_count ELSE 0

\* The step is an invocation that got HTTP 200 and returned an execution report.
C11_Completed ==
  /\ SESSION_POOL_ENDPOINT
  /\ last'.env.auth = "token"
  /\ last'.env.post_exc = "none"
  /\ last'.env.status = 200
  /\ last'.report.title \in {"Code Execution Successful", "Code Execution Failed"}

\* C11: an invocation that got HTTP 200 and completed without an exception
\* raises the execution_count of its session by exactly one, and an invocation
\* that ends in an error report (network, authentication, other status, 202,
\* or the System Error report of a 200 body that cannot be processed) leaves
\* every execution_count as it was.
C11_CountsCompletedExecutions ==
  [][last'.n = calls + 1 =>
       \A S \in 1..MaxCalls :
         CountOf(active_sessions', S) =
           CountOf(active_sessions, S)
             + (IF S = last'.sid /\ C11_Completed THEN 1 ELSE 0)]_vars

\* The step is an invocation whose POST was answered with status st.
Answered(st) ==
  /\ last'.n = calls + 1
  /\ SESSION_POOL_ENDPOINT
  /\ last'.env.auth = "token"
  /\ last'.env.post_exc = "none"
  /\ last'.env.status = st

\* C12: an invocation whose POST is answered with a status other than 200 and
\* 202 returns the execution-error report with the status code and the
\* response body, has sent exactly one POST and no poll, and leaves the
\* Session Store as it was.
C12_OtherStatusReported ==
  [][\A st \in {400, 408, 500} :
       Answered(st) =>
         /\ last'.report.title = "Execution Error"
         /\ last'.report.status_code = st
         /\ last'.report.text = PyStr(<<"body">>)
         /\ last'.posts = <<last'.sid>>
         /\ last'.polls = 0
         /\ active_sessions' = active_sessions]_vars

\* An invocation on a store with one session was answered HTTP 500.
C12_Witness ==
  /\ last.n = 2
  /\ SESSION_POOL_ENDPOINT
  /\ last.env.auth = "token" /\ last.env.post_exc = "none"
  /\ last.env.status = 500
  /\ last.report.title = "Execution Error"
  /\ last.report.status_code = 500
  /\ last.posts = <<1>>
  /\ Len(active_sessions) = 1

\* C13: an invocation whose token acquisition fails returns the
\* authentication-error report, has tried the acquisition once, has sent no
\* request to the sandbox, and leaves the Session Store as it was.
C13_AuthenticationFailure ==
  [][(last'.n = calls + 1 /\ SESSION_POOL_ENDPOINT /\ last'.env.auth # "token") =>
       /\ last'.report.title = "Authentication error"
       /\ last'.tokens = 1
       /\ last'.posts = <<>>
       /\ last'.polls = 0
       /\ active_sessions' = active_sessions]_vars

\* The token acquisition of an invocation on a store with one session failed.
C13_Witness ==
  /\ last.n = 2
  /\ SESSION_POOL_ENDPOINT
  /\ last.env.auth = "CredentialUnavailableError"
  /\ last.report.title = "Authentication error"
  /\ last.tokens = 1
  /\ last.posts = <<>>
  /\ Len(active_sessions) = 1

\* C14: an invocation whose POST fails at transport level (a connection
\* failure or a timeout) returns the network-error report, has sent that one
\* POST and no poll, and leaves the Session Store as it was.
C14_TransportFailure ==
  [][( /\ last'.n = calls + 1
       /\ SESSION_POOL_ENDPOINT
       /\ last'.env.auth = "token"
       /\ last'.env.post_exc \in {"ConnectionError", "Timeout"} ) =>
       /\ last'.report.title = "Network error"
       /\ last'.posts = <<last'.sid>>
       /\ last'.polls = 0
       /\ active_sessions' = active_sessions]_vars

\* The POST of an invocation on a store with one session could not connect.
C14_Witness ==
  /\ last.n = 2
  /\ SESSION_POOL_ENDPOINT
  /\ last.env.auth = "token"
  /\ last.env.post_exc = "ConnectionError"
  /\ last.report.title = "Network error"
  /\ last.posts = <<1>>
  /\ last.polls = 0
  /\ Len(active_sessions) = 1

\* tr is n rounds of a delay followed by a poll.
DelayedPolls(tr, n) ==
  /\ Len(tr) = 2 * n
  /\ \A k \in 1..n : tr[2 * k - 1] = "sleep" /\ tr[2 * k] = "get"

C16_TimedOut ==
  /\ last'.n = calls + 1
  /\ SESSION_POOL_ENDPOINT
  /\ last'.env.auth = "token"
  /\ \/ last'.env.post_exc = "Timeout"
     \/ /\ last'.env.post_exc = "none"
        /\ last'.env.status = 408
     \/ /\ last'.env.post_exc = "none"
        /\ last'.env.status = 202
        /\ last'.env.location
        /\ last'.env.pending < POLL_ATTEMPTS
        /\ last'.env.final = "Timeout"

\* C16: whenever the sandbox call exceeds its time bound (the POST times out,
\* a poll times out, or the sandbox answers HTTP 408) the invocation returns
\* the timeout report, not the network-error or the execution-error report.
C16_TimeoutReported ==
  [][C16_TimedOut => last'.report.title = "Timeout Error"]_vars

\* C17: every response of the session container to POST /execute has wire
\* shape A, a body with a properties object, whatever the request body and
\* whatever the execution does.
C17_AlwaysShapeA ==
  container.method = "POST" => container.resp.properties = "object"

\* v is a text with something other than whitespace in it.
NonBlank(v) == v.kind = "str" /\ \E i \in 1..Len(v.s) : v.s[i] # " "

\* The code, command and language a request supplies: those of its properties
\* object or, when properties is empty or absent, those at top level (where
\* the command is shellCommand or, when that is empty or absent, command).
SuppliedCode(data) ==
  IF data.properties = "object" THEN data.props.code ELSE data.code

SuppliedCommand(data) ==
  IF data.properties = "object" THEN data.props.shellCommand
  ELSE IF Truthy(data.shellCommand) THEN data.shellCommand ELSE data.command

SuppliedLanguage(data) ==
  IF data.properties = "object" THEN data.props.language ELSE data.language

SuppliesContent(data) ==
  /\ data.json = "object"
  /\ NonBlank(SuppliedCode(data)) \/ NonBlank(SuppliedCommand(data))

\* The request is unparsable, empty, or an object whose properties is absent,
\* empty or an object and whose language is a text or absent.
WellFormed(data) ==
  /\ data.json \in {"invalid", "falsy", "object"}
  /\ data.properties # "null"
  /\ SuppliedLanguage(data) # None

LanguageNames == {"python", "javascript", "js", "bash", "sh", "powershell", "pwsh"}

\* The request supplies code to run, no shell command, and a language that is
\* none of the supported ones.
UnsupportedLanguage(data) ==
  /\ SuppliesContent(data)
  /\ ~Truthy(SuppliedCommand(data))
  /\ SuppliedLanguage(data) # Missing
  /\ \A n \in LanguageNames : Lower(SuppliedLanguage(data)) # PyStr(<<n>>)

\* What C18 says of 408, 500 and 200: 408 when the subprocess exceeds the
\* timeout, 500 when it fails in another way, 200 with status "Success"
\* exactly when its return code is 0.
C18_SubprocessStatus ==
  container.resp.ran # "none" =>
    /\ container.run.ends = "TimeoutExpired" => container.resp.status_code = 408
    /\ container.run.ends = "OSError" => container.resp.status_code = 500
    /\ container.run.ends = "exit" =>
         /\ container.resp.status_code = 200
         /\ container.resp.returnCode = PyInt(container.run.returncode)
         /\ container.resp.status = Success <=> container.run.returncode = 0
         /\ container.resp.status \in {Success, Failed}

DirectTwin(b) ==
  Direct(b.stdout, b.stderr, b.returnCode,
         CASE b.status = Failed -> PyBool(FALSE)
           [] b.status = Success -> PyBool(TRUE)
           [] OTHER -> Missing)

\* The four fields of a session record that hold the recorded result.
Recorded(rec) ==
  << rec.last_status, rec.last_stdout, rec.last_stderr, rec.last_returnCode >>

\* C19: the recorded result does not depend on the wire shape: a wrapped
\* response and the direct response carrying the same stdout, stderr, return
\* code and failure flag leave the same last_status, last_stdout, last_stderr
\* and last_returnCode in the session record.
C19_ShapeIndependent ==
  [][( /\ Answered(200)
       /\ last'.env.body.json = "object"
       /\ last'.env.body.properties = "object"
       /\ RespStdout(last'.env.body).kind = "str" ) =>
       LET twin == On200(active_sessions, last'.sid, DirectTwin(last'.env.body),
                         last'.env.code, last'.n)
       IN Recorded(Get(active_sessions', last'.sid))
            = Recorded(Get(twin.store, last'.sid))]_vars

\* C20: an HTTP 200 response of either wire shape with a null or absent
\* return code, empty stderr, no listed error substring in stdout and no
\* failure flag is recorded with last_status Success.
C20_NullReturnCodeIsZero ==
  ( /\ Ran200
    /\ WireShaped(last.env.body)
    /\ ~Truthy(RespStderr(last.env.body))
    /\ ~ContainsListed(RespStdout(last.env.body))
    /\ C6_NoFailureFlag
    /\ RespReturnCode(last.env.body) \in {None, Missing} )
    => LastRecord.last_status = Success

\* C21: after any sequence of invocations of search_tools_available and
\* execute_in_dynamic_session during one chat request, the request's
\* tools_used list contains no two equal records.
C21_NoEqualRecords ==
  \A r \in Requests : HasToolsUsed(r) =>
    \A i, j \in 1..Len(ToolsUsedOf(r)) :
      ToolsUsedOf(r)[i] = ToolsUsedOf(r)[j] => i = j

\* C22 as stated: in every reachable state the Session Store holds at most one
\* session, also when tool invocations of concurrent chat requests interleave
\* between the store read and the store write.
C22_Original == Len(active_sessions) <= 1

\* C22: an invocation mints an id only when it finds the store empty, and a
\* session record is created only for an id that the invocation recording it
\* minted; chat requests run concurrently.
C22_CreatedForMintedId ==
  [][/\ \A r \in Requests :
          (~inflight[r].active /\ inflight'[r].active /\ inflight'[r].minted)
             => active_sessions = <<>>
     /\ \A k \in Keys(active_sessions') \ Keys(active_sessions) :
          \E r \in Requests :
            /\ inflight[r].active /\ ~inflight'[r].active
            /\ inflight[r].sid = k
            /\ inflight[r].minted]_vars

\* Two invocations found the store empty before either recorded its execution:
\* the store holds the sessions of both.
C22_Witness ==
  /\ Len(active_sessions) = 2
  /\ active_sessions[1].id # active_sessions[2].id
  /\ \A r \in Requests : ~inflight[r].active /\ Len(log[r]) > 0

\* The records that the invocations lg[i..] append to a tracker whose
\* seen-session set is seen: every record of the search tool, and a record of
\* the execution tool when its session id is not yet seen.
RECURSIVE AppendedFrom(_, _, _)
AppendedFrom(lg, i, seen) ==
  IF i > Len(lg) THEN <<>>
  ELSE IF lg[i].name = "execute_in_dynamic_session"
       THEN IF lg[i].session_id \in seen
            THEN AppendedFrom(lg, i + 1, seen)
            ELSE <<lg[i]>> \o AppendedFrom(lg, i + 1, seen \cup {lg[i].session_id})
       ELSE <<lg[i]>> \o AppendedFrom(lg, i + 1, seen)

\* C23: with chat requests handled one at a time, the tools_used list a POST
\* /chat request returns equals, in order, the records its own tool invocations
\* append to a tracker and a seen-session set that start empty.
C23_OwnRecordsInOrder ==
  \A r \in Requests :
    (pc[r] = "done" /\ resp[r].code = 200 /\ ~resp[r].streaming)
       => resp[r].tools_used = AppendedFrom(log[r], 1, {})

\* The second chat request called the search tool and then the execution tool
\* and returned both records, the second for session 1, whose record the first
\* request had returned too.
C23_Witness ==
  /\ pc["r1"] = "done" /\ resp["r1"].code = 200 /\ ~resp["r1"].streaming
  /\ pc["r2"] = "done" /\ resp["r2"].code = 200 /\ ~resp["r2"].streaming
  /\ resp["r1"].tools_used = <<ExecRecord(1)>>
  /\ Len(log["r2"]) = 2
  /\ log["r2"][2] = ExecRecord(1)
  /\ resp["r2"].tools_used = log["r2"]
  /\ Keys(active_sessions) = {1}

\* The records a sequence holds.
Records(seq) == {seq[i] : i \in 1..Len(seq)}

\* A POST /chat request that has answered 200.
Answered200(r) == pc[r] = "done" /\ resp[r].code = 200 /\ ~resp[r].streaming

\* C24 as stated: with two POST /chat requests in flight at the same time, the
\* tools_used list each returns holds exactly the records of the tools invoked
\* on its behalf: none lost, none taken over.
C24_Original ==
  \A r \in Requests : Answered200(r) => Records(resp[r].tools_used) = Records(log[r])

\* C24: with two POST /chat requests in flight at the same time, every record
\* a request returns is the record of a tool invoked for one of the requests,
\* and a request returns exactly its own records, in order, when no other
\* request reset the tracker or invoked a tool between its reset and its
\* reading of the tracker.
C24_OwnRecordsUnlessDisturbed ==
  \A r \in Requests : Answered200(r) =>
    /\ Records(resp[r].tools_used) \subseteq UNION {Records(log[q]) : q \in Requests}
    /\ ~disturbed[r] => resp[r].tools_used = AppendedFrom(log[r], 1, {})

\* The second request reset the tracker while the first was in flight: the
\* first lost its search record and returned the execution record of the
\* second, which returned exactly its own.
C24_Witness ==
  /\ Answered200("r1") /\ Answered200("r2")
  /\ disturbed["r1"] /\ ~disturbed["r2"]
  /\ Len(log["r1"]) = 1 /\ log["r1"][1].name = "search_tools_available"
  /\ Len(log["r2"]) = 1 /\ log["r2"][1].name = "execute_in_dynamic_session"
  /\ resp["r1"].tools_used = log["r2"]
  /\ resp["r2"].tools_used = log["r2"]

\* C25: an invocation that returns the configuration-error report has minted
\* no session id, appended no Tool-Invocation record, added nothing to the
\* seen-session set and left the Session Store unchanged.
C25_ConfigurationCheckFirst ==
  [][(last'.n = calls + 1 /\ last'.report.title = "Configuration Error") =>
       /\ ~last'.minted
       /\ current_tools_used' = current_tools_used
       /\ current_request_sessions' = current_request_sessions
       /\ active_sessions' = active_sessions]_vars

\* C26: for every HTTP 200 response of either wire shape the report agrees with
\* the status recorded in the store: it is the failure report exactly when the
\* session's last_status is Failed and the success report exactly when it is
\* Success, also when the return code is null or absent.
C26_ReportAgreesWithStatus ==
  (Ran200 /\ WireShaped(last.env.body)) =>
    /\ last.report.title = "Code Execution Failed" <=> LastRecord.last_status = Failed
    /\ last.report.title = "Code Execution Successful" <=> LastRecord.last_status = Success

\* The execution count of session sid in store (0 when it has no record).
CountIn(store, sid) ==
  IF sid \in Keys(store) THEN Get(store, sid).execution_count ELSE 0

\* C27: every session record has a last_status in {Success, Failed} that was
\* computed from the same response as its execution_count, last_stdout and
\* last_stderr: whenever an invocation leaves a record counted anew, the record
\* has a status and the invocation classified the response it counted, also
\* when the HTTP 200 body cannot be processed.
C27_StatusOfSameResponse ==
  [][\A sid \in Keys(active_sessions') :
       /\ Get(active_sessions', sid).last_status \in {Success, Failed}
       /\ CountIn(active_sessions', sid) # CountIn(active_sessions, sid)
            => last'.report.title \in {"Code Execution Failed",
                                       "Code Execution Successful"}]_vars

\* C28: in every reachable state a session record whose last_status is Success
\* has an empty last_stderr, a last_stdout that contains none of the ten listed
\* error substrings, and a last_returnCode that is 0 or null.
C28_SuccessIsClean ==
  \A sid \in Keys(active_sessions) :
    LET rec == Get(active_sessions, sid)
    IN rec.last_status = Success =>
         /\ rec.last_stderr = EmptyStr
         /\ rec.last_stdout.kind = "str" /\ ~ContainsListed(rec.last_stdout)
         /\ rec.last_returnCode \in {PyInt(0), None}

\* C29: for every HTTP 200 response of either wire shape with stdout s and
\* stderr e, the recorded pair (last_stdout, last_stderr) is (s, e), or it is
\* ("", s) and then e is empty and s contains a listed error substring; when s
\* contains an error substring and e is non-empty, both are recorded unchanged.
C29_NothingDiscarded ==
  (Ran200 /\ WireShaped(last.env.body)) =>
    LET s == RespStdout(last.env.body)
        e == RespStderr(last.env.body)
        rec == LastRecord
    IN /\ \/ rec.last_stdout = s /\ rec.last_stderr = e
          \/ /\ rec.last_stdout = EmptyStr /\ rec.last_stderr = s
             /\ e = EmptyStr /\ ContainsListed(s)
       /\ (ContainsListed(s) /\ e # EmptyStr) =>
            rec.last_stdout = s /\ rec.last_stderr = e

\* A response carried a traceback in stdout and a text in stderr: both are
\* recorded as received and the execution is Failed.
C29_Witness ==
  /\ Ran200
  /\ WireShaped(last.env.body)
  /\ last.env.body.properties = "missing"
  /\ RespStdout(last.env.body) = Traceback
  /\ RespStderr(last.env.body) = PyStr(<<"boom">>)
  /\ LastRecord.last_stdout = Traceback
  /\ LastRecord.last_stderr = PyStr(<<"boom">>)
  /\ LastRecord.last_status = Failed
  /\ LastRecord.execution_count = 2

\* The positions of the execution tool's records in a tools_used list.
ExecPositions(seq) ==
  {i \in 1..Len(seq) : seq[i].name = "execute_in_dynamic_session"}

\* C30 as stated: within one chat request, whatever the invocations' outcomes,
\* the tools_used list holds at most one record of the execution tool, and the
\* session id it records is the id of all of the request's executions.
C30_Original ==
  \A r \in Requests : HasToolsUsed(r) =>
    /\ Cardinality(ExecPositions(ToolsUsedOf(r))) <= 1
    /\ \A i \in ExecPositions(ToolsUsedOf(r)), j \in ExecPositions(log[r]) :
         ToolsUsedOf(r)[i].session_id = log[r][j].session_id

\* C30: with chat requests handled one at a time, the tools_used list of a
\* request holds one record of the execution tool for each session id its
\* invocations resolved, and of these only the last can be the id of a session
\* in the store: every earlier one was minted by an invocation that found the
\* store empty and recorded no execution.
C30_OneRecordPerResolvedId ==
  \A r \in Requests : HasToolsUsed(r) =>
    LET tools == ToolsUsedOf(r)
    IN /\ \A i, j \in ExecPositions(tools) :
            i < j => /\ tools[i].session_id # tools[j].session_id
                     /\ tools[i].session_id \notin Keys(active_sessions)
       /\ {tools[i].session_id : i \in ExecPositions(tools)}
            = {log[r][j].session_id : j \in ExecPositions(log[r])}

\* The first invocation of a request was refused on the empty store, the
\* second minted another id and recorded its execution, the third reused it:
\* the request returned two records.
C30_Witness ==
  /\ Answered200("r1")
  /\ log["r1"] = <<ExecRecord(1), ExecRecord(2), ExecRecord(2)>>
  /\ resp["r1"].tools_used = <<ExecRecord(1), ExecRecord(2)>>
  /\ Keys(active_sessions) = {2}
  /\ Get(active_sessions, 2).execution_count = 2

====
